---- MODULE Spec2Model ----
(***************************************************************************)
(* Model of experiment_summary.py: the Entrez search / summary wrappers,   *)
(* the three extraction routines, the per-experiment pipeline, the CSV     *)
(* writer and the entry point that runs three experiment identifiers.      *)
(*                                                                         *)
(* Python dictionaries are functions whose DOMAIN is the set of keys, so a *)
(* missing key (KeyError) is a key outside the DOMAIN.  Strings that the   *)
(* code builds by formatting or joining are sequences of tokens.  A call   *)
(* either returns a value or raises; both are "outcome" records.           *)
(*                                                                         *)
(* The remote service is the environment: every response is chosen         *)
(* nondeterministically (success or not, and any body of the bounded       *)
(* sets).  A success body carries the field the wrapper consumes.          *)
(***************************************************************************)
EXTENDS Integers, Sequences, FiniteSets, TLC

VARIABLES
    idx,               \* position in the entry point's list of identifiers
    pc,                \* next statement of the script
    output,            \* experiment_summary's `output` dictionary
    ids,               \* sum_GSE's `ids`
    gse_summary,       \* experiment_summary's `gse_summary`
    relevant_srp_ids,  \* experiment_summary's `relevant_srp_ids`
    sra_ids,           \* experiment_summary's `sra_ids`
    calls,             \* outbound requests of the current identifier, with the status answered
    files,             \* files written so far (path and the table it holds)
    err,               \* the unhandled exception that ended the script, if any
    call,              \* SpecFn: the function application under test
    ret                \* SpecFn: what the application sent and produced

vars == <<idx, pc, output, ids, gse_summary, relevant_srp_ids, sra_ids,
          calls, files, err, call, ret>>

scriptVars == <<idx, pc, output, ids, gse_summary, relevant_srp_ids, sra_ids,
                calls, files, err>>

---------------------------------------------------------------------------
(* Bounds of the explored inputs *)

\* longest identifier list a Search response returns
MaxIds == 2
\* most identifiers in a summary given to an extraction routine (SpecFn)
MaxUids == 2
\* most identifiers in a summary answered to the pipeline (Spec)
MaxPipelineUids == 1
\* longest extrelations list of one primary record
MaxRel == 2

---------------------------------------------------------------------------
(* Program constants *)

GSE_DB_NAME == "gds"
SRA_DB_NAME == "sra"

\* the identifiers of the entry point, in execution order
GSE_IDS == <<"GSE89408", "GSE59847", "GSE40598">>

MICROARRAY_PATH(gse_id) == <<"results/microarray/", gse_id, "_experiment_summary.csv">>
RNASEQ_PATH(gse_id) == <<"results/rnaseq/", gse_id, "_rnaseq.csv">>

ENTREZ_SEARCH_URL(db_name, search_term) ==
    [endpoint |-> "esearch.fcgi", db |-> db_name, param |-> search_term]
ENTREZ_SUMMARY_URL(db_name, id_param) ==
    [endpoint |-> "esummary.fcgi", db |-> db_name, param |-> id_param]

---------------------------------------------------------------------------
(* Outcomes of a call, dictionaries, string joins *)

Return(v) == [raised |-> FALSE, exc |-> "", key |-> <<>>, value |-> v]
Raise(e, k) == [raised |-> TRUE, exc |-> e, key |-> k, value |-> <<>>]
NoError == [exc |-> "", key |-> <<>>]

EmptyDict == [k \in {} |-> <<>>]

\* mutant: only the first item is kept
Join_first_only(sep, items) == IF Len(items) = 0 THEN <<>> ELSE <<items[1]>>

\* str.join: the items with the separator between consecutive items
RECURSIVE Join(_, _)
Join(sep, items) ==
    IF Len(items) = 0 THEN <<>>
    ELSE IF Len(items) = 1 THEN <<items[1]>>
    ELSE <<items[1], sep>> \o Join(sep, Tail(items))

---------------------------------------------------------------------------
(* entrez_search, entrez_summary, sum_GSE's query *)

\* mutant: the body is read whatever the status
entrez_search_ignoring_status(db_name, term, response) ==
    [request |-> ENTREZ_SEARCH_URL(db_name, term),
     out |-> Return(response.json.esearchresult.idlist)]

entrez_search(db_name, term, response) ==
    [request |-> ENTREZ_SEARCH_URL(db_name, term),
     out |-> IF response.ok
             THEN Return(response.json.esearchresult.idlist)
             ELSE Return(<<>>)]

\* mutant: the identifiers are sent as they come, not joined with commas
entrez_summary_unjoined(db_name, id_list, response) ==
    [request |-> ENTREZ_SUMMARY_URL(db_name, id_list),
     out |-> IF response.ok THEN Return(response.json.result) ELSE Return(EmptyDict)]

entrez_summary(db_name, id_list, response) ==
    [request |-> ENTREZ_SUMMARY_URL(db_name, Join(",", id_list)),
     out |-> IF response.ok THEN Return(response.json.result) ELSE Return(EmptyDict)]

sum_GSE_query(gse_id) == <<gse_id, "+AND+gse[ETYP]">>

---------------------------------------------------------------------------
(* parse_gse_summary *)

\* mutant: an absent sub-field is defaulted to the empty string
gse_row_defaulting(s, uid) ==
    IF uid \notin DOMAIN s THEN Raise("KeyError", <<uid>>)
    ELSE Return([uid |-> uid,
                 gpl |-> IF "gpl" \in DOMAIN s[uid] THEN s[uid]["gpl"] ELSE <<>>,
                 suppfile |-> IF "suppfile" \in DOMAIN s[uid] THEN s[uid]["suppfile"] ELSE <<>>,
                 ftplink |-> IF "ftplink" \in DOMAIN s[uid] THEN s[uid]["ftplink"] ELSE <<>>])

\* the dict(...) of one loop iteration: the first absent key raises
gse_row(s, uid) ==
    IF uid \notin DOMAIN s THEN Raise("KeyError", <<uid>>)
    ELSE IF "gpl" \notin DOMAIN s[uid] THEN Raise("KeyError", <<uid, "gpl">>)
    ELSE IF "suppfile" \notin DOMAIN s[uid] THEN Raise("KeyError", <<uid, "suppfile">>)
    ELSE IF "ftplink" \notin DOMAIN s[uid] THEN Raise("KeyError", <<uid, "ftplink">>)
    ELSE Return([uid |-> uid,
                 gpl |-> s[uid]["gpl"],
                 suppfile |-> s[uid]["suppfile"],
                 ftplink |-> s[uid]["ftplink"]])

RECURSIVE gse_loop(_, _, _)
gse_loop(s, i, parsed) ==
    IF i > Len(s["uids"]) THEN Return(parsed)
    ELSE LET row == gse_row(s, s["uids"][i])
         IN  IF row.raised THEN row
             ELSE gse_loop(s, i + 1, Append(parsed, row.value))

parse_gse_summary(gse_summray) ==
    IF "uids" \notin DOMAIN gse_summray THEN Raise("KeyError", <<"uids">>)
    ELSE gse_loop(gse_summray, 1, <<>>)

---------------------------------------------------------------------------
(* find_relevant_srp *)

\* the loop of extend calls: every identifier's extrelations, concatenated
RECURSIVE extend_loop(_, _, _)
extend_loop(s, i, extrelations) ==
    IF i > Len(s["uids"]) THEN Return(extrelations)
    ELSE LET uid == s["uids"][i]
         IN  IF uid \notin DOMAIN s THEN Raise("KeyError", <<uid>>)
             ELSE IF "extrelations" \notin DOMAIN s[uid]
                  THEN Raise("KeyError", <<uid, "extrelations">>)
             ELSE extend_loop(s, i + 1, extrelations \o s[uid]["extrelations"])

\* the list comprehension: the condition is evaluated before the element
RECURSIVE srp_comprehension(_, _, _)
srp_comprehension(extrelations, i, srp_ids) ==
    IF i > Len(extrelations) THEN Return(srp_ids)
    ELSE LET relation == extrelations[i]
         IN  IF "relationtype" \notin DOMAIN relation
             THEN Raise("KeyError", <<"relationtype">>)
             ELSE IF relation["relationtype"] # "SRA"
                  THEN srp_comprehension(extrelations, i + 1, srp_ids)
             ELSE IF "targetobject" \notin DOMAIN relation
                  THEN Raise("KeyError", <<"targetobject">>)
             ELSE srp_comprehension(extrelations, i + 1,
                                    Append(srp_ids, relation["targetobject"]))

\* mutant: a target already collected is not collected again
RECURSIVE Dedup(_, _)
Dedup(items, seen) ==
    IF Len(items) = 0 THEN <<>>
    ELSE IF Head(items) \in seen THEN Dedup(Tail(items), seen)
    ELSE <<Head(items)>> \o Dedup(Tail(items), seen \cup {Head(items)})

find_relevant_srp_dedup(gse_summary_arg) ==
    IF "uids" \notin DOMAIN gse_summary_arg THEN Raise("KeyError", <<"uids">>)
    ELSE LET flat == extend_loop(gse_summary_arg, 1, <<>>)
         IN  IF flat.raised THEN flat
             ELSE LET found == srp_comprehension(flat.value, 1, <<>>)
                  IN  IF found.raised THEN found ELSE Return(Dedup(found.value, {}))

find_relevant_srp(gse_summary_arg) ==
    IF "uids" \notin DOMAIN gse_summary_arg THEN Raise("KeyError", <<"uids">>)
    ELSE LET flat == extend_loop(gse_summary_arg, 1, <<>>)
         IN  IF flat.raised THEN flat
             ELSE srp_comprehension(flat.value, 1, <<>>)

---------------------------------------------------------------------------
(* xmltodict.parse, on an abstract XML text: whether it is well formed, the *)
(* tags of its top-level elements in order, and its leaves (the attribute  *)
(* and text values, by path from the top level).  The parser accepts a     *)
(* document with exactly one top-level element and returns the tree as a   *)
(* map from paths to leaf values.                                          *)

Range(seq) == {seq[i] : i \in DOMAIN seq}

xmltodict_parse(text) ==
    IF text.wellformed /\ Len(text.roots) = 1
    THEN Return(text.leaves)
    ELSE Raise("ExpatError", <<>>)

\* f'<root>{fragment}</root>': the fragment's elements become children of one root
wrap_root(fragment) ==
    [wellformed |-> fragment.wellformed,
     roots |-> <<"root">>,
     leaves |-> [p \in {<<"root">> \o q : q \in DOMAIN fragment.leaves} |->
                    fragment.leaves[Tail(p)]]]

\* tree[key]: the subtree below a top-level key
Subtree(tree, key) ==
    [q \in {Tail(p) : p \in {r \in DOMAIN tree : r[1] = key}} |-> tree[<<key>> \o q]]

---------------------------------------------------------------------------
(* parse_sra_summary *)

\* the sixteen values of a row after uid, in the order the dict(...) evaluates them
SRA_FIELDS == <<
    [name |-> "run_id",            tree |-> "runs",   path |-> <<"Run", "@acc">>],
    [name |-> "total_spots",       tree |-> "expxml", path |-> <<"Summary", "Statistics", "@total_spots">>],
    [name |-> "total_bases",       tree |-> "expxml", path |-> <<"Summary", "Statistics", "@total_bases">>],
    [name |-> "total_size",        tree |-> "expxml", path |-> <<"Summary", "Statistics", "@total_size">>],
    [name |-> "experiment",        tree |-> "expxml", path |-> <<"Experiment", "@acc">>],
    [name |-> "platform",          tree |-> "expxml", path |-> <<"Summary", "Platform", "#text">>],
    [name |-> "model",             tree |-> "expxml", path |-> <<"Summary", "Platform", "@instrument_model">>],
    [name |-> "tax_id",            tree |-> "expxml", path |-> <<"Organism", "@taxid">>],
    [name |-> "sample",            tree |-> "expxml", path |-> <<"Sample", "@acc">>],
    [name |-> "library_strategy",  tree |-> "expxml", path |-> <<"Library_descriptor", "LIBRARY_STRATEGY">>],
    [name |-> "library_selection", tree |-> "expxml", path |-> <<"Library_descriptor", "LIBRARY_SELECTION">>],
    [name |-> "library_source",    tree |-> "expxml", path |-> <<"Library_descriptor", "LIBRARY_SOURCE">>],
    [name |-> "bio_project",       tree |-> "expxml", path |-> <<"Bioproject">>],
    [name |-> "bio_sample",        tree |-> "expxml", path |-> <<"Biosample">>],
    [name |-> "sra_study",         tree |-> "expxml", path |-> <<"Study", "@acc">>],
    [name |-> "sra_id",            tree |-> "expxml", path |-> <<"Submitter", "@acc">>] >>

\* the keyword arguments of dict(...), left to right: the first absent path raises
RECURSIVE sra_fields(_, _, _)
sra_fields(trees, i, row) ==
    IF i > Len(SRA_FIELDS) THEN Return(row)
    ELSE LET f == SRA_FIELDS[i]
         IN  IF f.path \notin DOMAIN trees[f.tree]
             THEN Raise("KeyError", f.path)
             ELSE sra_fields(trees, i + 1, row @@ (f.name :> trees[f.tree][f.path]))

\* one loop iteration: both parses, then the row
sra_row(s, uid) ==
    IF uid \notin DOMAIN s THEN Raise("KeyError", <<uid>>)
    ELSE IF "expxml" \notin DOMAIN s[uid] THEN Raise("KeyError", <<uid, "expxml">>)
    ELSE LET expxml == xmltodict_parse(wrap_root(s[uid]["expxml"]))
         IN  IF expxml.raised THEN expxml
             ELSE IF "runs" \notin DOMAIN s[uid] THEN Raise("KeyError", <<uid, "runs">>)
             ELSE LET runs == xmltodict_parse(s[uid]["runs"])
                  IN  IF runs.raised THEN runs
                      ELSE sra_fields([expxml |-> Subtree(expxml.value, "root"),
                                       runs |-> runs.value],
                                      1, "uid" :> uid)

RECURSIVE sra_loop(_, _, _)
sra_loop(s, i, parsed) ==
    IF i > Len(s["uids"]) THEN Return(parsed)
    ELSE LET row == sra_row(s, s["uids"][i])
         IN  IF row.raised THEN row
             ELSE sra_loop(s, i + 1, Append(parsed, row.value))

\* mutant: a record that fails is left out and the others are kept
RECURSIVE sra_loop_skipping(_, _, _)
sra_loop_skipping(s, i, parsed) ==
    IF i > Len(s["uids"]) THEN Return(parsed)
    ELSE LET row == sra_row(s, s["uids"][i])
         IN  sra_loop_skipping(s, i + 1, IF row.raised THEN parsed ELSE Append(parsed, row.value))

parse_sra_summary_skipping(sra_summary) ==
    IF "uids" \notin DOMAIN sra_summary THEN Raise("KeyError", <<"uids">>)
    ELSE sra_loop_skipping(sra_summary, 1, <<>>)

parse_sra_summary(sra_summary) ==
    IF "uids" \notin DOMAIN sra_summary THEN Raise("KeyError", <<"uids">>)
    ELSE sra_loop(sra_summary, 1, <<>>)

---------------------------------------------------------------------------
(* The environment: what the service can answer *)

\* the i-th record identifier
Uid(i) == ToString(i)
UidList(n) == [i \in 1..n |-> Uid(i)]

\* a leaf value of the record of `uid`
Val(uid, name) == <<uid, name>>

SeqsUpTo(S, n) == UNION {[1..k -> S] : k \in 0..n}
Without(rec, key) == [k \in DOMAIN rec \ {key} |-> rec[k]]

IdLists == {UidList(n) : n \in 0..MaxIds}

SearchResponses ==
    {[ok |-> o, json |-> [esearchresult |-> [idlist |-> l]]] : o \in BOOLEAN, l \in IdLists}

SummaryResponses(results) ==
    {[ok |-> o, json |-> [result |-> r]] : o \in BOOLEAN, r \in results}

\* what the pipeline is answered: every body with success, and a failure (whose
\* body the code never reads) with one body
PipelineResponses(results) ==
    {[ok |-> TRUE, json |-> [result |-> r]] : r \in results}
    \cup {[ok |-> FALSE, json |-> [result |-> "uids" :> <<>>]]}

\* external relations of a primary record
RELATIONS ==
    {[relationtype |-> "SRA", targetobject |-> "SRP1"],
     [relationtype |-> "SRA", targetobject |-> "SRP2"],
     [relationtype |-> "BioProject", targetobject |-> "PRJNA1"]}

RelLists == SeqsUpTo(RELATIONS, MaxRel)

GseRecord(uid, rels) ==
    [gpl |-> Val(uid, "gpl"), suppfile |-> Val(uid, "suppfile"),
     ftplink |-> Val(uid, "ftplink"), extrelations |-> rels]

\* what a primary summary can hold for one identifier: a complete record with any
\* relation list or with a relation lacking a key, a record with one key absent,
\* or no entry at all
GseOptions ==
    {[kind |-> "complete", rels |-> r, key |-> ""]
        : r \in RelLists \cup {<<[targetobject |-> "SRP1"]>>, <<[relationtype |-> "SRA"]>>}}
    \cup {[kind |-> "without", rels |-> <<>>, key |-> k]
            : k \in {"gpl", "suppfile", "ftplink", "extrelations"}}
    \cup {[kind |-> "absent", rels |-> <<>>, key |-> ""]}

GsePlain == [kind |-> "complete", rels |-> <<>>, key |-> ""]

GseRecordOf(uid, d) ==
    IF d.kind = "without" THEN Without(GseRecord(uid, <<>>), d.key) ELSE GseRecord(uid, d.rels)

\* the primary summary listing Uid(1)..Uid(Len(c)), the i-th identifier's entry
\* chosen by c[i]
BuildGseSummary(c) ==
    [k \in {"uids"} \cup {Uid(i) : i \in {j \in 1..Len(c) : c[j].kind # "absent"}} |->
        IF k = "uids" THEN UidList(Len(c))
        ELSE GseRecordOf(k, c[CHOOSE i \in 1..Len(c) : Uid(i) = k])]

\* the choices for the pipeline's summaries: up to MaxPipelineUids identifiers, all
\* but at most one of them with the plain complete record
PipelineChoices(options, plain) ==
    UNION {{[j \in 1..n |-> plain]}
           \cup {[j \in 1..n |-> IF j = i THEN d ELSE plain] : i \in 1..n, d \in options}
           : n \in 0..MaxPipelineUids}

EXP_NAMES == {f.name : f \in {g \in Range(SRA_FIELDS) : g.tree = "expxml"}}

EXP_TAGS == <<"Summary", "Experiment", "Organism", "Sample", "Library_descriptor",
              "Bioproject", "Biosample", "Study", "Submitter">>

\* the field read at each path
FieldAt == [p \in {f.path : f \in Range(SRA_FIELDS)} |->
              (CHOOSE f \in Range(SRA_FIELDS) : f.path = p).name]

\* the expxml fragment of `uid`: one element per tag, without the leaves in `missing`
ExpxmlText(uid, missing, wellformed) ==
    [wellformed |-> wellformed,
     roots |-> EXP_TAGS,
     leaves |-> [p \in {f.path : f \in {g \in Range(SRA_FIELDS) :
                                          g.tree = "expxml" /\ g.name \notin missing}} |->
                    Val(uid, FieldAt[p])]]

\* the runs text of `uid`: n Run elements, the first with or without its accession
RunsText(uid, n, has_acc, wellformed) ==
    [wellformed |-> wellformed,
     roots |-> [i \in 1..n |-> "Run"],
     leaves |-> [p \in (IF has_acc /\ n > 0 THEN {<<"Run", "@acc">>} ELSE {}) |->
                    Val(uid, FieldAt[p])]]

\* what a sequencing summary can hold for one identifier: the complete record, one
\* per absent expxml leaf, an unparsable text, no or two Run elements, a Run
\* without accession, a record with one text absent, or no entry at all
SraPlain ==
    [kind |-> "complete", missing |-> {}, exp_ok |-> TRUE,
     nruns |-> 1, run_acc |-> TRUE, runs_ok |-> TRUE, key |-> ""]

SraOptions ==
    {SraPlain}
    \cup {[SraPlain EXCEPT !.missing = {n}] : n \in EXP_NAMES}
    \cup {[SraPlain EXCEPT !.exp_ok = FALSE], [SraPlain EXCEPT !.runs_ok = FALSE],
          [SraPlain EXCEPT !.nruns = 0], [SraPlain EXCEPT !.nruns = 2],
          [SraPlain EXCEPT !.run_acc = FALSE]}
    \cup {[SraPlain EXCEPT !.kind = "without", !.key = k] : k \in {"expxml", "runs"}}
    \cup {[SraPlain EXCEPT !.kind = "absent"]}

SraRecordOf(uid, d) ==
    LET rec == [expxml |-> ExpxmlText(uid, d.missing, d.exp_ok),
                runs |-> RunsText(uid, d.nruns, d.run_acc, d.runs_ok)]
    IN  IF d.kind = "without" THEN Without(rec, d.key) ELSE rec

\* the sequencing summary listing Uid(1)..Uid(Len(c)), entries chosen by c
BuildSraSummary(c) ==
    [k \in {"uids"} \cup {Uid(i) : i \in {j \in 1..Len(c) : c[j].kind # "absent"}} |->
        IF k = "uids" THEN UidList(Len(c))
        ELSE SraRecordOf(k, c[CHOOSE i \in 1..Len(c) : Uid(i) = k])]

\* bodies the service answers to the pipeline
PipelineGseResults ==
    {BuildGseSummary(c) : c \in PipelineChoices(GseOptions, GsePlain)}
PipelineSraResults ==
    {BuildSraSummary(c) : c \in PipelineChoices(SraOptions, SraPlain)}

PipelineGseResponses == PipelineResponses(PipelineGseResults)
PipelineSraResponses == PipelineResponses(PipelineSraResults)

SrpLists == SeqsUpTo({"SRP1", "SRP2"}, 2) \ {<<>>}
SearchTerms ==
    {sum_GSE_query(GSE_IDS[i]) : i \in DOMAIN GSE_IDS} \cup {Join("+OR+", l) : l \in SrpLists}

---------------------------------------------------------------------------
(* SpecFn: one application of one function to one input *)

NoCall == [f |-> "none", args |-> <<>>]
NotCalled == [done |-> FALSE, sent |-> <<>>, out |-> Return(<<>>)]

ScriptInit ==
    /\ idx = 1
    /\ pc = "gds_search"
    /\ output = EmptyDict
    /\ ids = <<>>
    /\ gse_summary = EmptyDict
    /\ relevant_srp_ids = <<>>
    /\ sra_ids = <<>>
    /\ calls = <<>>
    /\ files = {}
    /\ err = NoError

FnInit ==
    /\ ScriptInit
    /\ ret = NotCalled
    /\ \/ call \in {[f |-> "entrez_search", args |-> [db_name |-> d, term |-> t, response |-> r]]
                     : d \in {GSE_DB_NAME, SRA_DB_NAME}, t \in SearchTerms, r \in SearchResponses}
       \/ call \in {[f |-> "entrez_summary", args |-> [db_name |-> d, ids |-> l, response |-> r]]
                     : d \in {GSE_DB_NAME, SRA_DB_NAME}, l \in IdLists,
                       r \in SummaryResponses(PipelineGseResults \cup PipelineSraResults)}
       \/ call = [f |-> "parse_gse_summary", args |-> [summary |-> EmptyDict]]
       \/ \E n \in 0..MaxUids : \E c \in [1..n -> GseOptions] :
            call = [f |-> "parse_gse_summary", args |-> [summary |-> BuildGseSummary(c)]]
       \/ call = [f |-> "find_relevant_srp", args |-> [summary |-> EmptyDict]]
       \/ \E n \in 0..MaxUids : \E c \in [1..n -> GseOptions] :
            call = [f |-> "find_relevant_srp", args |-> [summary |-> BuildGseSummary(c)]]
       \/ call = [f |-> "parse_sra_summary", args |-> [summary |-> EmptyDict]]
       \/ \E n \in 0..MaxUids : \E c \in [1..n -> SraOptions] :
            call = [f |-> "parse_sra_summary", args |-> [summary |-> BuildSraSummary(c)]]

CallEntrezSearch ==
    /\ call.f = "entrez_search" /\ ~ret.done
    /\ LET r == entrez_search(call.args.db_name, call.args.term, call.args.response)
       IN  ret' = [done |-> TRUE, sent |-> <<r.request>>, out |-> r.out]
    /\ UNCHANGED <<scriptVars, call>>

CallEntrezSummary ==
    /\ call.f = "entrez_summary" /\ ~ret.done
    /\ LET r == entrez_summary(call.args.db_name, call.args.ids, call.args.response)
       IN  ret' = [done |-> TRUE, sent |-> <<r.request>>, out |-> r.out]
    /\ UNCHANGED <<scriptVars, call>>

CallParseGse ==
    /\ call.f = "parse_gse_summary" /\ ~ret.done
    /\ ret' = [done |-> TRUE, sent |-> <<>>, out |-> parse_gse_summary(call.args.summary)]
    /\ UNCHANGED <<scriptVars, call>>

CallFindSrp ==
    /\ call.f = "find_relevant_srp" /\ ~ret.done
    /\ ret' = [done |-> TRUE, sent |-> <<>>, out |-> find_relevant_srp(call.args.summary)]
    /\ UNCHANGED <<scriptVars, call>>

CallParseSra ==
    /\ call.f = "parse_sra_summary" /\ ~ret.done
    /\ ret' = [done |-> TRUE, sent |-> <<>>, out |-> parse_sra_summary(call.args.summary)]
    /\ UNCHANGED <<scriptVars, call>>

FnNext ==
    \/ CallEntrezSearch
    \/ CallEntrezSummary
    \/ CallParseGse
    \/ CallFindSrp
    \/ CallParseSra

SpecFn == FnInit /\ [][FnNext]_vars

---------------------------------------------------------------------------
(* Spec: the entry point.  Each action is the code between two points      *)
(* where the script talks to the outside (a request or a file write).     *)

GseId == GSE_IDS[idx]

\* an exception nothing catches: the interpreter exits, requests and files remain
Crash(outcome) ==
    /\ pc' = "crashed"
    /\ err' = [exc |-> outcome.exc, key |-> outcome.key]
    /\ output' = EmptyDict
    /\ ids' = <<>>
    /\ gse_summary' = EmptyDict
    /\ relevant_srp_ids' = <<>>
    /\ sra_ids' = <<>>

Logged(r, response) == Append(calls, [request |-> r.request, ok |-> response.ok])

\* experiment_summary: output = dict(gse_id=gse_id); sum_GSE: the query and entrez_search
GdsSearch ==
    /\ pc = "gds_search"
    /\ \E response \in SearchResponses :
         LET r == entrez_search(GSE_DB_NAME, sum_GSE_query(GseId), response)
         IN  /\ calls' = Logged(r, response)
             /\ ids' = r.out.value
    /\ output' = [gse_id |-> GseId]
    /\ pc' = "gds_summary"
    /\ UNCHANGED <<idx, gse_summary, relevant_srp_ids, sra_ids, files, err, call, ret>>

\* sum_GSE: entrez_summary, returned into gse_summary
GdsSummarize ==
    /\ pc = "gds_summary"
    /\ \E response \in PipelineGseResponses :
         LET r == entrez_summary(GSE_DB_NAME, ids, response)
         IN  /\ calls' = Logged(r, response)
             /\ gse_summary' = r.out.value
    /\ pc' = "parse_gse"
    /\ UNCHANGED <<idx, output, ids, relevant_srp_ids, sra_ids, files, err, call, ret>>

\* mutant: the primary table is written as soon as it is extracted
ParseGse_writing ==
    /\ pc = "parse_gse"
    /\ LET table == parse_gse_summary(gse_summary)
       IN  IF table.raised
           THEN Crash(table) /\ UNCHANGED files
           ELSE /\ output' = output @@ ("microarray" :> table.value)
                /\ files' = files \cup {[path |-> MICROARRAY_PATH(output["gse_id"]),
                                          table |-> "microarray"]}
                /\ pc' = "find_srp"
                /\ UNCHANGED <<ids, gse_summary, relevant_srp_ids, sra_ids, err>>
    /\ UNCHANGED <<idx, calls, call, ret>>

\* output['microarray'] = parse_gse_summary(gse_summary)
ParseGse ==
    /\ pc = "parse_gse"
    /\ LET table == parse_gse_summary(gse_summary)
       IN  IF table.raised
           THEN Crash(table)
           ELSE /\ output' = output @@ ("microarray" :> table.value)
                /\ pc' = "find_srp"
                /\ UNCHANGED <<ids, gse_summary, relevant_srp_ids, sra_ids, err>>
    /\ UNCHANGED <<idx, calls, files, call, ret>>

\* mutant: the sequencing stage runs whether or not a target was found
FindSrp_unconditional ==
    /\ pc = "find_srp"
    /\ LET found == find_relevant_srp(gse_summary)
       IN  IF found.raised
           THEN Crash(found)
           ELSE /\ relevant_srp_ids' = found.value
                /\ pc' = "sra_search"
                /\ UNCHANGED <<output, ids, gse_summary, sra_ids, err>>
    /\ UNCHANGED <<idx, calls, files, call, ret>>

\* relevant_srp_ids = find_relevant_srp(gse_summary); if relevant_srp_ids:
FindSrp ==
    /\ pc = "find_srp"
    /\ LET found == find_relevant_srp(gse_summary)
       IN  IF found.raised
           THEN Crash(found)
           ELSE /\ relevant_srp_ids' = found.value
                /\ pc' = IF Len(found.value) > 0 THEN "sra_search" ELSE "return"
                /\ UNCHANGED <<output, ids, gse_summary, sra_ids, err>>
    /\ UNCHANGED <<idx, calls, files, call, ret>>

\* sra_ids = entrez_search(db_name=SRA_DB_NAME, term='+OR+'.join(relevant_srp_ids));
\* gse_summary is not read again and is dropped here
SraSearch ==
    /\ pc = "sra_search"
    /\ \E response \in SearchResponses :
         LET r == entrez_search(SRA_DB_NAME, Join("+OR+", relevant_srp_ids), response)
         IN  /\ calls' = Logged(r, response)
             /\ sra_ids' = r.out.value
    /\ gse_summary' = EmptyDict
    /\ pc' = "sra_summary"
    /\ UNCHANGED <<idx, output, ids, relevant_srp_ids, files, err, call, ret>>

\* output['rnaseq'] = parse_sra_summary(entrez_summary(db_name=SRA_DB_NAME, ids=sra_ids))
SraSummarize ==
    /\ pc = "sra_summary"
    /\ \E response \in PipelineSraResponses :
         LET r == entrez_summary(SRA_DB_NAME, sra_ids, response)
             table == parse_sra_summary(r.out.value)
         IN  /\ calls' = Logged(r, response)
             /\ IF table.raised
                THEN Crash(table)
                ELSE /\ output' = output @@ ("rnaseq" :> table.value)
                     /\ pc' = "return"
                     /\ UNCHANGED <<ids, gse_summary, relevant_srp_ids, sra_ids, err>>
    /\ UNCHANGED <<idx, files, call, ret>>

\* return output: the locals of experiment_summary end, output goes to save_to_csv
ReturnOutput ==
    /\ pc = "return"
    /\ pc' = "save_microarray"
    /\ ids' = <<>>
    /\ gse_summary' = EmptyDict
    /\ relevant_srp_ids' = <<>>
    /\ sra_ids' = <<>>
    /\ UNCHANGED <<idx, output, calls, files, err, call, ret>>

\* save_to_csv: experiment_summary['microarray'].to_csv(MICROARRAY_PATH...)
SaveMicroarray ==
    /\ pc = "save_microarray"
    /\ files' = files \cup {[path |-> MICROARRAY_PATH(output["gse_id"]), table |-> "microarray"]}
    /\ pc' = "save_rnaseq"
    /\ UNCHANGED <<idx, output, ids, gse_summary, relevant_srp_ids, sra_ids, calls, err, call, ret>>

\* save_to_csv: if 'rnaseq' in experiment_summary: ...to_csv(RNASEQ_PATH...)
SaveRnaseq ==
    /\ pc = "save_rnaseq"
    /\ files' = IF "rnaseq" \in DOMAIN output
                THEN files \cup {[path |-> RNASEQ_PATH(output["gse_id"]), table |-> "rnaseq"]}
                ELSE files
    /\ pc' = "next"
    /\ UNCHANGED <<idx, output, ids, gse_summary, relevant_srp_ids, sra_ids, calls, err, call, ret>>

\* __main__: the next save_to_csv(experiment_summary(...)) line, or the end of the script
NextExperiment ==
    /\ pc = "next"
    /\ IF idx < Len(GSE_IDS)
       THEN /\ idx' = idx + 1
            /\ pc' = "gds_search"
            /\ calls' = <<>>
       ELSE /\ pc' = "exit"
            /\ UNCHANGED <<idx, calls>>
    /\ output' = EmptyDict
    /\ UNCHANGED <<ids, gse_summary, relevant_srp_ids, sra_ids, files, err, call, ret>>

Init ==
    /\ ScriptInit
    /\ call = NoCall
    /\ ret = NotCalled

Next ==
    \/ GdsSearch
    \/ GdsSummarize
    \/ ParseGse
    \/ FindSrp
    \/ SraSearch
    \/ SraSummarize
    \/ ReturnOutput
    \/ SaveMicroarray
    \/ SaveRnaseq
    \/ NextExperiment

Spec == Init /\ [][Next]_vars

---------------------------------------------------------------------------
(* Properties *)

\* `joined` is `items` with `sep` between consecutive items, position by position
IsJoin(joined, sep, items) ==
    /\ Len(joined) = (IF Len(items) = 0 THEN 0 ELSE 2 * Len(items) - 1)
    /\ \A i \in 1..Len(items) : joined[2 * i - 1] = items[i]
    /\ \A i \in 1..(Len(items) - 1) : joined[2 * i] = sep

\* some listed identifier of the summary has an SRA-typed relation
HasSraRelation(s) ==
    \E i \in DOMAIN s["uids"] :
        \E j \in DOMAIN s[s["uids"][i]]["extrelations"] :
            s[s["uids"][i]]["extrelations"][j]["relationtype"] = "SRA"

\* the files written for experiment identifier g
FilesOf(g) == {f \in files : f.path \in {MICROARRAY_PATH(g), RNASEQ_PATH(g)}}

\* C1: when experiment_summary is about to return its composite result, the result
\* holds the primary table, and it holds the key 'rnaseq' if and only if
\* find_relevant_srp returned at least one target, which is the case exactly when
\* the primary summary has an SRA-typed relation; with none the key is absent.
C1_RnaseqKeyIffSrpFound ==
    /\ pc = "return" =>
         /\ "microarray" \in DOMAIN output
         /\ ("rnaseq" \in DOMAIN output) <=> (Len(relevant_srp_ids) > 0)
    /\ (pc \in {"sra_search", "return"} /\ "uids" \in DOMAIN gse_summary) =>
         ((Len(relevant_srp_ids) > 0) <=> HasSraRelation(gse_summary))

\* C1 witness: a result is returned for an experiment that has a record with a
\* relation, none of them SRA-typed, and the result has no 'rnaseq' key.
C1_Witness ==
    /\ pc = "return"
    /\ "rnaseq" \notin DOMAIN output
    /\ "uids" \in DOMAIN gse_summary
    /\ Len(output["microarray"]) > 0
    /\ \E i \in DOMAIN gse_summary["uids"] :
          Len(gse_summary[gse_summary["uids"][i]]["extrelations"]) > 0

\* C2: the requests of one identifier are, in order, Search(gds) with the GSE
\* query, Summarize(gds) with the comma-joined ids, and then Search(sra),
\* Summarize(sra) exactly when discovery found a target; the term of Search(sra)
\* is the '+OR+' join of the targets in discovery order and contains each of
\* them; with no target nothing follows Summarize(gds).
C2_CallOrder ==
    /\ Len(calls) <= 4
    /\ \A i \in DOMAIN calls :
         /\ calls[i].request.endpoint = (IF i \in {1, 3} THEN "esearch.fcgi" ELSE "esummary.fcgi")
         /\ calls[i].request.db = (IF i <= 2 THEN GSE_DB_NAME ELSE SRA_DB_NAME)
    /\ Len(calls) >= 1 => calls[1].request.param = <<GseId, "+AND+gse[ETYP]">>
    /\ pc = "gds_search" => Len(calls) = 0
    /\ pc = "gds_summary" => Len(calls) = 1
    /\ pc \in {"parse_gse", "find_srp"} => Len(calls) = 2
    /\ pc = "sra_search" => Len(calls) = 2 /\ Len(relevant_srp_ids) > 0
    /\ pc = "sra_summary" => Len(calls) = 3 /\ Len(relevant_srp_ids) > 0
    /\ pc = "return" => Len(calls) = (IF Len(relevant_srp_ids) > 0 THEN 4 ELSE 2)
    /\ pc \in {"save_microarray", "save_rnaseq", "next"} =>
         Len(calls) = (IF "rnaseq" \in DOMAIN output THEN 4 ELSE 2)
    /\ pc = "crashed" => Len(calls) \in {2, 4}
    /\ (pc \in {"parse_gse", "find_srp", "sra_search", "sra_summary", "return"}) =>
         IsJoin(calls[2].request.param, ",", ids)
    /\ (pc \in {"sra_summary", "return"} /\ Len(calls) >= 3) =>
         /\ IsJoin(calls[3].request.param, "+OR+", relevant_srp_ids)
         /\ \A t \in Range(relevant_srp_ids) : t \in Range(calls[3].request.param)
    /\ (pc = "return" /\ Len(calls) = 4) =>
         IsJoin(calls[4].request.param, ",", sra_ids)

\* C2 witness: a run that discovered two different targets has issued all four
\* requests and is about to return.
C2_Witness ==
    /\ pc = "return"
    /\ Len(calls) = 4
    /\ relevant_srp_ids = <<"SRP2", "SRP1">>

\* C3: a non-success response to a Search or Summarize call never makes the
\* pipeline end in a raised error: the empty result it is degraded to flows on
\* as empty tables.  (In the model only the empty mapping of a failed Summarize
\* lacks 'uids', so a KeyError on 'uids' is an error raised because of it.)
C3_NonSuccessNeverRaises ==
    (\E i \in DOMAIN calls : ~calls[i].ok) =>
        ~(pc = "crashed" /\ err.exc = "KeyError" /\ err.key = <<"uids">>)

\* C9: nothing is written for an identifier before its experiment_summary has
\* returned, so a run that aborts on a missing field or an unparsable text
\* leaves neither of its CSV files, also when the abort comes in the sequencing
\* stage after the primary table was extracted; and a primary summary with a
\* missing field never gets past the extraction that reads it.
C9_AbortWritesNothing ==
    /\ pc \in {"gds_search", "gds_summary", "parse_gse", "find_srp", "sra_search",
               "sra_summary", "return", "save_microarray", "crashed"} =>
         FilesOf(GseId) = {}
    /\ pc = "crashed" => err.exc \in {"KeyError", "ExpatError"}
    /\ pc = "find_srp" =>
         \A i \in DOMAIN gse_summary["uids"] :
            LET u == gse_summary["uids"][i]
            IN  u \in DOMAIN gse_summary
                /\ {"gpl", "suppfile", "ftplink"} \subseteq DOMAIN gse_summary[u]
    /\ pc = "sra_search" =>
         \A i \in DOMAIN gse_summary["uids"] :
            "extrelations" \in DOMAIN gse_summary[gse_summary["uids"][i]]
    /\ \A f \in files : \E i \in 1..idx : f \in FilesOf(GSE_IDS[i])

\* C9 witness: the run aborted in the sequencing stage (all four requests were
\* issued, so the primary table had been extracted) on a missing leaf.
C9_Witness ==
    /\ pc = "crashed"
    /\ Len(calls) = 4
    /\ calls[4].ok
    /\ err.exc = "KeyError"
    /\ err.key = <<"Submitter", "@acc">>

\* C10: the runs of the identifiers are independent: what is written for one
\* identifier does not depend on how the run of another one ended.  In
\* particular the script never ends, after an abort, with identifiers of the
\* list left unprocessed (their files would be missing whatever the service
\* answers for them).
C10_RunsIndependent ==
    pc \in {"crashed", "exit"} => idx = Len(GSE_IDS)

---------------------------------------------------------------------------
(* Properties of the functions (SpecFn) *)

Applied(f) == call.f = f /\ ret.done

\* C4: entrez_search never raises; on a non-success response it returns the empty
\* list whatever the namespace and the term, and on a success response exactly
\* the response's esearchresult.idlist.
C4_SearchEmptyOnFailure ==
    Applied("entrez_search") =>
        /\ ~ret.out.raised
        /\ ~call.args.response.ok => ret.out.value = <<>>
        /\ call.args.response.ok =>
             ret.out.value = call.args.response.json.esearchresult.idlist

\* C4 witness: a non-success response whose body carries identifiers was answered
\* to a search of the sequencing namespace, and the result is empty.
C4_Witness ==
    /\ Applied("entrez_search")
    /\ call.args.db_name = SRA_DB_NAME
    /\ ~call.args.response.ok
    /\ Len(call.args.response.json.esearchresult.idlist) = 2
    /\ ret.out.value = <<>>

\* C5: entrez_summary issues exactly one request, to the summary endpoint of the
\* namespace given, carrying all identifiers joined by commas; on a non-success
\* response it returns the empty mapping and does not raise.
C5_SummaryEmptyOnFailure ==
    Applied("entrez_summary") =>
        /\ Len(ret.sent) = 1
        /\ ret.sent[1].endpoint = "esummary.fcgi"
        /\ ret.sent[1].db = call.args.db_name
        /\ IsJoin(ret.sent[1].param, ",", call.args.ids)
        /\ ~ret.out.raised
        /\ ~call.args.response.ok => DOMAIN ret.out.value = {}
        /\ call.args.response.ok => ret.out.value = call.args.response.json.result

\* C5 witness: two identifiers were summarized and the response, whose body holds
\* a record, was a non-success one.
C5_Witness ==
    /\ Applied("entrez_summary")
    /\ Len(call.args.ids) = 2
    /\ ~call.args.response.ok
    /\ Len(call.args.response.json.result["uids"]) > 0
    /\ DOMAIN ret.out.value = {}

\* the SRA-typed relations of the summary, as (identifier position, relation position)
SraPositions(s) ==
    {<<i, j>> \in (DOMAIN s["uids"]) \X (1..MaxRel) :
        /\ j \in DOMAIN s[s["uids"][i]]["extrelations"]
        /\ s[s["uids"][i]]["extrelations"][j]["relationtype"] = "SRA"}

IsSra(relation) == relation["relationtype"] = "SRA"

\* the targets of the SRA-typed relations of the identifiers from position i on
RECURSIVE SraTargetsFrom(_, _)
SraTargetsFrom(s, i) ==
    IF i > Len(s["uids"]) THEN <<>>
    ELSE LET sel == SelectSeq(s[s["uids"][i]]["extrelations"], IsSra)
         IN  [k \in 1..Len(sel) |-> sel[k]["targetobject"]] \o SraTargetsFrom(s, i + 1)

\* every listed identifier has relations, each with a type, the SRA-typed with a target
SrpReadable(s) ==
    \A i \in DOMAIN s["uids"] :
        LET u == s["uids"][i]
        IN  /\ u \in DOMAIN s
            /\ "extrelations" \in DOMAIN s[u]
            /\ \A j \in DOMAIN s[u]["extrelations"] :
                 LET r == s[u]["extrelations"][j]
                 IN  /\ "relationtype" \in DOMAIN r
                     /\ r["relationtype"] = "SRA" => "targetobject" \in DOMAIN r

\* C6: find_relevant_srp returns exactly the targetobject values of the relations
\* whose relationtype is 'SRA', in identifier order and then relation order,
\* duplicates kept: as many entries as there are SRA-typed relations.
C6_SrpTargetsInOrder ==
    (Applied("find_relevant_srp") /\ "uids" \in DOMAIN call.args.summary) =>
        LET s == call.args.summary
        IN  /\ ret.out.raised <=> ~SrpReadable(s)
            /\ ~ret.out.raised =>
                 /\ ret.out.value = SraTargetsFrom(s, 1)
                 /\ Len(ret.out.value) = Cardinality(SraPositions(s))

\* C6 witness: two identifiers contribute, one target occurs twice and stays twice.
C6_Witness ==
    /\ Applied("find_relevant_srp")
    /\ "uids" \in DOMAIN call.args.summary
    /\ Len(call.args.summary["uids"]) = 2
    /\ ret.out.value = <<"SRP2", "SRP1", "SRP1">>

\* every listed identifier has an entry with the three sub-fields
GseComplete(s) ==
    \A i \in DOMAIN s["uids"] :
        /\ s["uids"][i] \in DOMAIN s
        /\ {"gpl", "suppfile", "ftplink"} \subseteq DOMAIN s[s["uids"][i]]

\* C7: parse_gse_summary produces one row per identifier of 'uids', in that order,
\* each row being exactly uid, gpl, suppfile and ftplink of that identifier's
\* entry; if a sub-field is absent for any identifier it raises and there is no
\* table.
C7_PrimaryRows ==
    (Applied("parse_gse_summary") /\ "uids" \in DOMAIN call.args.summary) =>
        LET s == call.args.summary
            table == ret.out.value
        IN  IF GseComplete(s)
            THEN /\ ~ret.out.raised
                 /\ Len(table) = Len(s["uids"])
                 /\ \A i \in DOMAIN table :
                      /\ DOMAIN table[i] = {"uid", "gpl", "suppfile", "ftplink"}
                      /\ table[i]["uid"] = s["uids"][i]
                      /\ \A k \in {"gpl", "suppfile", "ftplink"} :
                           table[i][k] = s[s["uids"][i]][k]
            ELSE /\ ret.out.raised
                 /\ ret.out.exc = "KeyError"
                 /\ table = <<>>

\* C7 witness: a summary of two identifiers in which only the second lacks a
\* sub-field was given, and no table came out.
C7_Witness ==
    /\ Applied("parse_gse_summary")
    /\ "uids" \in DOMAIN call.args.summary
    /\ Len(call.args.summary["uids"]) = 2
    /\ Uid(1) \in DOMAIN call.args.summary
    /\ {"gpl", "suppfile", "ftplink"} \subseteq DOMAIN call.args.summary[Uid(1)]
    /\ ret.out.raised
    /\ ret.out.key = <<Uid(2), "ftplink">>

\* the record has both texts, both parse, and all sixteen paths are in them
SraComplete(rec) ==
    /\ {"expxml", "runs"} \subseteq DOMAIN rec
    /\ rec["expxml"].wellformed
    /\ rec["runs"].wellformed
    /\ Len(rec["runs"].roots) = 1
    /\ \A i \in DOMAIN SRA_FIELDS :
         SRA_FIELDS[i].path \in DOMAIN rec[SRA_FIELDS[i].tree].leaves

\* C8: parse_sra_summary is all or nothing.  When every identifier of 'uids' has
\* all sixteen paths, the table has one row per identifier in 'uids' order, the
\* row holding the uid and the sixteen values of that identifier; when one
\* identifier lacks a path or has a text that does not parse, it raises and
\* there is no table: no partial row and no row of another identifier.
C8_SequencingAllOrNothing ==
    (Applied("parse_sra_summary") /\ "uids" \in DOMAIN call.args.summary) =>
        LET s == call.args.summary
            table == ret.out.value
        IN  IF \A i \in DOMAIN s["uids"] :
                  s["uids"][i] \in DOMAIN s /\ SraComplete(s[s["uids"][i]])
            THEN /\ ~ret.out.raised
                 /\ Len(table) = Len(s["uids"])
                 /\ \A i \in DOMAIN table :
                      /\ DOMAIN table[i] = {"uid"} \cup {f.name : f \in Range(SRA_FIELDS)}
                      /\ Cardinality(DOMAIN table[i]) = 17
                      /\ table[i]["uid"] = s["uids"][i]
                      /\ \A f \in Range(SRA_FIELDS) :
                           table[i][f.name] = s[s["uids"][i]][f.tree].leaves[f.path]
            ELSE /\ ret.out.raised
                 /\ table = <<>>

\* C8 witness: of two identifiers the first is complete and the second has two
\* Run elements; the extraction raised and left no row of the first.
C8_Witness ==
    /\ Applied("parse_sra_summary")
    /\ "uids" \in DOMAIN call.args.summary
    /\ Len(call.args.summary["uids"]) = 2
    /\ Uid(1) \in DOMAIN call.args.summary
    /\ SraComplete(call.args.summary[Uid(1)])
    /\ Uid(2) \in DOMAIN call.args.summary
    /\ "runs" \in DOMAIN call.args.summary[Uid(2)]
    /\ Len(call.args.summary[Uid(2)]["runs"].roots) = 2
    /\ ret.out.raised
    /\ ret.out.exc = "ExpatError"
    /\ ret.out.value = <<>>

====
